---- MODULE Spec2Model ----
(***************************************************************************)
(* Model of ifcbbox.py: the transform builder (createTransformationMat),   *)
(* the box accumulator (initBBox, fitBBox) and the reference search        *)
(* (findAssemblyBBox).                                                     *)
(*                                                                         *)
(* Numbers.  Coordinates are integers.  float("inf") is the integer Inf,   *)
(* larger than every finite value the model computes; -inf is NegInf and   *)
(* NaN is a third value.  ExtSub, ExtMul and ExtLt are IEEE subtraction,   *)
(* multiplication and "<" on these values.                                 *)
(*                                                                         *)
(* Objects.  A numpy array that the code mutates in place is an object on  *)
(* `heap`: a sequence of boxes, an address being an index into it.  A name *)
(* of the code that is bound to such an array (bbox, res['BBox']) holds    *)
(* the address, so aliasing is visible.                                    *)
(***************************************************************************)
EXTENDS Integers, Sequences, FiniteSets

\* parts                 the parts of the assembly (line 98)
\* pc                    position in findAssemblyBBox: "for_ref" and "for_part"
\*                       are the heads of the two loops, "done" is after the
\*                       return, "raised_<line>" after an uncaught exception
\* refPart, part         indexes of the loop variables of lines 110 and 120
\* refTransformationMat  line 114
\* heap, bbox            the box arrays and the one bbox is bound to
\* res                   the result store of lines 101-107
\* scored                log of the box, dim and vol computed per candidate
\* outcome               "running", "returned" or the exception raised
\* fitted, argRef, argBefore, retRef
\*                       for the accumulator on its own: the points fitted,
\*                       and the argument, its contents at entry and the
\*                       value returned by the last fitBBox call
VARIABLES parts, pc, refPart, part, refTransformationMat, heap, bbox, res,
          scored, outcome, fitted, argRef, argBefore, retRef

vars == <<parts, pc, refPart, part, refTransformationMat, heap, bbox, res,
          scored, outcome, fitted, argRef, argBefore, retRef>>

searchVars == <<parts, pc, refPart, part, refTransformationMat, res, scored, outcome>>
fitVars == <<fitted, argRef, argBefore, retRef>>

-----------------------------------------------------------------------------
(* Bounds *)

MaxParts == 2
MaxFit == 3

-----------------------------------------------------------------------------
(* Extended reals *)

Inf == 1000000
NegInf == -Inf
NaN == Inf + 1
None == 0

IsInf(x) == x = Inf \/ x = NegInf

Sign(x) == IF x > 0 THEN 1 ELSE IF x < 0 THEN -1 ELSE 0

ExtSub(a, b) ==
    IF a = NaN \/ b = NaN THEN NaN
    ELSE IF IsInf(a) /\ IsInf(b) THEN (IF a = b THEN NaN ELSE a)
    ELSE IF IsInf(a) THEN a
    ELSE IF IsInf(b) THEN -b
    ELSE a - b

ExtMul(a, b) ==
    IF a = NaN \/ b = NaN THEN NaN
    ELSE IF IsInf(a) \/ IsInf(b)
         THEN (IF a = 0 \/ b = 0 THEN NaN
               ELSE IF Sign(a) * Sign(b) > 0 THEN Inf ELSE NegInf)
    ELSE a * b

ExtLt(a, b) == a # NaN /\ b # NaN /\ a < b

min(a, b) == IF b < a THEN b ELSE a
max(a, b) == IF b > a THEN b ELSE a

-----------------------------------------------------------------------------
(* Linear algebra (numpy) on 4x4 matrices, rows first *)

Identity4 == <<<<1, 0, 0, 0>>, <<0, 1, 0, 0>>, <<0, 0, 1, 0>>, <<0, 0, 0, 1>>>>

cross(a, b) == <<a[2] * b[3] - a[3] * b[2],
                 a[3] * b[1] - a[1] * b[3],
                 a[1] * b[2] - a[2] * b[1]>>

MatMul(A, B) ==
    [i \in 1..4 |-> [j \in 1..4 |->
        A[i][1] * B[1][j] + A[i][2] * B[2][j] + A[i][3] * B[3][j] + A[i][4] * B[4][j]]]

MatVec(A, v) ==
    [i \in 1..4 |-> A[i][1] * v[1] + A[i][2] * v[2] + A[i][3] * v[3] + A[i][4] * v[4]]

\* Determinant of the 3x3 block of an affine matrix (its last row is 0 0 0 1,
\* so this is the determinant of the whole matrix).
Det(M) ==
      M[1][1] * (M[2][2] * M[3][3] - M[2][3] * M[3][2])
    - M[1][2] * (M[2][1] * M[3][3] - M[2][3] * M[3][1])
    + M[1][3] * (M[2][1] * M[3][2] - M[2][2] * M[3][1])

Next3(i) == (i % 3) + 1

\* Entry (i, j) of the adjugate of the 3x3 block: the cofactor of (j, i).
Adj(M, i, j) ==
    LET r1 == Next3(j)
        r2 == Next3(r1)
        c1 == Next3(i)
        c2 == Next3(c1)
    IN  M[r1][c1] * M[r2][c2] - M[r1][c2] * M[r2][c1]

\* np.linalg.inv of an invertible affine matrix: the block is adjugate/det,
\* the translation is -(block^-1 . t).  The placements of the model have
\* determinant 0 or 1, so the division is exact.
inv(M) ==
    LET d == Det(M)
        R == [i \in 1..3 |-> [j \in 1..3 |-> Adj(M, i, j) \div d]]
        t == [i \in 1..3 |-> -(R[i][1] * M[1][4] + R[i][2] * M[2][4] + R[i][3] * M[3][4])]
    IN  <<<<R[1][1], R[1][2], R[1][3], t[1]>>,
          <<R[2][1], R[2][2], R[2][3], t[2]>>,
          <<R[3][1], R[3][2], R[3][3], t[3]>>,
          <<0, 0, 0, 1>>>>

\* np.linalg.inv raises LinAlgError("Singular matrix") on a singular matrix.
Singular(M) == Det(M) = 0

-----------------------------------------------------------------------------
(* Transform builder *)

\* Lines 17-18: createTransformationMat raises ValueError for an argument
\* that is not an IfcAxis2Placement3D entity.
ValidPlacement(relPlacement) == relPlacement.is_a = "IfcAxis2Placement3D"

\* Lines 21-37: the matrix returned for a valid placement.
createTransformationMat(relPlacement) ==
    LET relLoc == relPlacement.Location
        relZAx == relPlacement.Axis
        relXAx == relPlacement.RefDirection
        relYAx == cross(relZAx, relXAx)
        translateMat == <<<<1, 0, 0, relLoc[1]>>,
                          <<0, 1, 0, relLoc[2]>>,
                          <<0, 0, 1, relLoc[3]>>,
                          <<0, 0, 0, 1>>>>
        rotateMat == <<<<relXAx[1], relYAx[1], relZAx[1], 0>>,
                       <<relXAx[2], relYAx[2], relZAx[2], 0>>,
                       <<relXAx[3], relYAx[3], relZAx[3], 0>>,
                       <<0, 0, 0, 1>>>>
    IN  MatMul(translateMat, rotateMat)

-----------------------------------------------------------------------------
(* Box accumulator *)

initBBox == <<<<Inf, Inf, Inf>>, <<NegInf, NegInf, NegInf>>>>

FitValue(b, point) ==
    <<<<min(b[1][1], point[1]), min(b[1][2], point[2]), min(b[1][3], point[3])>>,
      <<max(b[2][1], point[1]), max(b[2][2], point[2]), max(b[2][3], point[3])>>>>

\* Faulty variants of fitBBox: one that returns a copy, one whose max x is
\* the last point's x, one that reads the wrong coordinate for max z.
fitBBoxCopy(h, a, point) ==
    [heap |-> Append(h, FitValue(h[a], point)), ret |-> Len(h) + 1]

fitBBoxLastX(h, a, point) ==
    [heap |-> [h EXCEPT ![a] =
                 <<<<min(h[a][1][1], point[1]), min(h[a][1][2], point[2]), min(h[a][1][3], point[3])>>,
                   <<point[1], max(h[a][2][2], point[2]), max(h[a][2][3], point[3])>>>>],
     ret |-> a]

fitBBoxWrongAxis(h, a, point) ==
    [heap |-> [h EXCEPT ![a] =
                 <<<<min(h[a][1][1], point[1]), min(h[a][1][2], point[2]), min(h[a][1][3], point[3])>>,
                   <<max(h[a][2][1], point[1]), max(h[a][2][2], point[2]), max(h[a][2][3], point[2])>>>>],
     ret |-> a]

\* fitBBox writes the six entries of the array it is given and returns that
\* same array: the result is the heap after the call and the address returned.
fitBBox(h, a, point) ==
    [heap |-> [h EXCEPT ![a] = FitValue(h[a], point)], ret |-> a]

-----------------------------------------------------------------------------
(* Inputs: the entities the IFC model hands to findAssemblyBBox *)

\* IfcAxis2Placement3D records: Location, Axis (Z) and RefDirection (X).
\* The third is a sheared frame; the last two are degenerate: Axis and
\* RefDirection parallel, and a zero RefDirection.
Placement3D(loc, z, x) ==
    [is_a |-> "IfcAxis2Placement3D", Location |-> loc, Axis |-> z, RefDirection |-> x]

Placements ==
    { Placement3D(<<0, 0, 0>>, <<0, 0, 1>>, <<1, 0, 0>>),
      Placement3D(<<3, 0, 1>>, <<0, 0, 1>>, <<1, 0, 0>>),
      Placement3D(<<0, 1, 0>>, <<1, 1, 0>>, <<-1, 0, 0>>),
      Placement3D(<<0, 0, 0>>, <<1, 0, 0>>, <<1, 0, 0>>),
      Placement3D(<<0, 0, 0>>, <<0, 0, 1>>, <<0, 0, 0>>) }

\* A placement of another kind; its attributes are never read.
OtherPlacement ==
    [is_a |-> "IfcAxis2Placement2D", Location |-> <<0, 0, 0>>,
     Axis |-> <<0, 0, 1>>, RefDirection |-> <<1, 0, 0>>]

\* What part.Representation.Representations[0].Items[0].Outer[0] gives:
\* HasOuter = FALSE is the AttributeError of a part without solid geometry;
\* otherwise Outer is the list of faces, each the vertex loop
\* face.Bounds[0].Bound[0] as a list of point coordinates.
Geometries ==
    { [HasOuter |-> FALSE, Outer |-> <<>>],
      [HasOuter |-> TRUE,  Outer |-> <<>>],
      [HasOuter |-> TRUE,  Outer |-> << <<<<1, 1, 2>>>> >>],
      [HasOuter |-> TRUE,  Outer |-> << <<<<0, 0, 0>>, <<1, 1, 2>>>> >>],
      [HasOuter |-> TRUE,  Outer |-> << <<<<0, 0, 0>>, <<2, 1, 1>>>>, <<<<1, 2, 0>>>> >>] }

Parts ==
    { [ObjectPlacement |-> pl, HasOuter |-> g.HasOuter, Outer |-> g.Outer] :
        pl \in Placements, g \in Geometries }
    \cup
    { [ObjectPlacement |-> OtherPlacement, HasOuter |-> FALSE, Outer |-> <<>>],
      [ObjectPlacement |-> OtherPlacement, HasOuter |-> TRUE,
       Outer |-> << <<<<0, 0, 0>>, <<1, 1, 2>>>> >>] }

\* elementAssembly.IsDecomposedBy[0].RelatedObjects of an assembly that passes
\* the validation of lines 93-94.  A part's id() is its index in the list.
PartLists == UNION { [1..n -> Parts] : n \in 0..MaxParts }

-----------------------------------------------------------------------------
(* Reference search: findAssemblyBBox *)

\* The vertices of all faces, in the order the two inner loops visit them.
RECURSIVE Vertices(_)
Vertices(faces) ==
    IF faces = <<>> THEN <<>> ELSE Head(faces) \o Vertices(Tail(faces))

\* The loops over faces and vertices for one part: each point is lifted to
\* (x, y, z, 1), mapped by transformMat and fitted; bbox is rebound to what
\* fitBBox returns.
RECURSIVE FitAll(_, _, _, _)
FitAll(h, a, transformMat, points) ==
    IF points = <<>> THEN [heap |-> h, ret |-> a]
    ELSE LET point == <<Head(points)[1], Head(points)[2], Head(points)[3], 1>>
             pointOnRef == MatVec(transformMat, point)
             r == fitBBox(h, a, pointOnRef)
         IN  FitAll(r.heap, r.ret, transformMat, Tail(points))

Dim(b) == <<ExtSub(b[2][1], b[1][1]), ExtSub(b[2][2], b[1][2]), ExtSub(b[2][3], b[1][3])>>
Vol(dim) == ExtMul(ExtMul(dim[1], dim[2]), dim[3])

\* Faulty variants of the comparison of line 152.
BetterOrEqual(vol, best) == ExtLt(vol, best) \/ vol = best
BetterReversed(vol, best) == ExtLt(best, vol)

\* if vol < res['Vol']
Better(vol, best) == ExtLt(vol, best)

InitRes == [RefObjName |-> None, RefObjId |-> None, BBox |-> None, Dim |-> <<>>, Vol |-> Inf]

Init ==
    /\ parts \in PartLists
    /\ pc = "for_ref"
    /\ refPart = 1
    /\ part = 1
    /\ refTransformationMat = Identity4
    /\ heap = <<>>
    /\ bbox = None
    /\ res = InitRes
    /\ scored = <<>>
    /\ outcome = "running"
    /\ fitted = <<>>
    /\ argRef = None
    /\ argBefore = initBBox
    /\ retRef = None

\* Faulty variant of BeginRef: the box is created once, before the loop over the
\* candidates, and every candidate folds its points into that one array.
BeginRefSharedBox ==
    /\ pc = "for_ref"
    /\ refPart <= Len(parts)
    /\ ValidPlacement(parts[refPart].ObjectPlacement)
    /\ refTransformationMat' = createTransformationMat(parts[refPart].ObjectPlacement)
    /\ heap' = IF heap = <<>> THEN <<initBBox>> ELSE heap
    /\ bbox' = 1
    /\ part' = 1
    /\ pc' = "for_part"
    /\ UNCHANGED <<parts, refPart, res, scored, outcome>>
    /\ UNCHANGED fitVars

\* Lines 110-117: the next candidate, its transform and a fresh box.
BeginRef ==
    /\ pc = "for_ref"
    /\ refPart <= Len(parts)
    /\ ValidPlacement(parts[refPart].ObjectPlacement)
    /\ refTransformationMat' = createTransformationMat(parts[refPart].ObjectPlacement)
    /\ heap' = Append(heap, initBBox)
    /\ bbox' = Len(heap) + 1
    /\ part' = 1
    /\ pc' = "for_part"
    /\ UNCHANGED <<parts, refPart, res, scored, outcome>>
    /\ UNCHANGED fitVars

\* Line 114 with a candidate whose placement is not an IfcAxis2Placement3D:
\* createTransformationMat raises ValueError, which nothing catches.
RaiseInvalidRef ==
    /\ pc = "for_ref"
    /\ refPart <= Len(parts)
    /\ ~ValidPlacement(parts[refPart].ObjectPlacement)
    /\ pc' = "raised_114"
    /\ outcome' = "ValueError"
    /\ UNCHANGED <<parts, refPart, part, refTransformationMat, heap, bbox, res, scored>>
    /\ UNCHANGED fitVars

\* Faulty variant of SkipPart: the part without geometry ends the inner loop.
SkipPartBreak ==
    /\ pc = "for_part"
    /\ part <= Len(parts)
    /\ ~parts[part].HasOuter
    /\ part' = Len(parts) + 1
    /\ UNCHANGED <<parts, pc, refPart, refTransformationMat, heap, bbox, res, scored, outcome>>
    /\ UNCHANGED fitVars

\* Lines 120-126: a part without geometry is passed over.
SkipPart ==
    /\ pc = "for_part"
    /\ part <= Len(parts)
    /\ ~parts[part].HasOuter
    /\ part' = part + 1
    /\ UNCHANGED <<parts, pc, refPart, refTransformationMat, heap, bbox, res, scored, outcome>>
    /\ UNCHANGED fitVars

\* Lines 128-147: the part's transform into the candidate's frame and the
\* fold of all its vertices into bbox.
FitPart ==
    /\ pc = "for_part"
    /\ part <= Len(parts)
    /\ parts[part].HasOuter
    /\ ValidPlacement(parts[part].ObjectPlacement)
    /\ ~Singular(refTransformationMat)
    /\ LET transformMat == MatMul(inv(refTransformationMat),
                                  createTransformationMat(parts[part].ObjectPlacement))
           r == FitAll(heap, bbox, transformMat, Vertices(parts[part].Outer))
       IN  /\ heap' = r.heap
           /\ bbox' = r.ret
    /\ part' = part + 1
    /\ UNCHANGED <<parts, pc, refPart, refTransformationMat, res, scored, outcome>>
    /\ UNCHANGED fitVars

\* Line 129 with a part whose placement is not an IfcAxis2Placement3D.
RaiseInvalidPart ==
    /\ pc = "for_part"
    /\ part <= Len(parts)
    /\ parts[part].HasOuter
    /\ ~ValidPlacement(parts[part].ObjectPlacement)
    /\ pc' = "raised_129"
    /\ outcome' = "ValueError"
    /\ UNCHANGED <<parts, refPart, part, refTransformationMat, heap, bbox, res, scored>>
    /\ UNCHANGED fitVars

\* Line 130 with a singular candidate transform: np.linalg.inv raises
\* LinAlgError, which nothing catches.
RaiseSingular ==
    /\ pc = "for_part"
    /\ part <= Len(parts)
    /\ parts[part].HasOuter
    /\ ValidPlacement(parts[part].ObjectPlacement)
    /\ Singular(refTransformationMat)
    /\ pc' = "raised_130"
    /\ outcome' = "LinAlgError"
    /\ UNCHANGED <<parts, refPart, part, refTransformationMat, heap, bbox, res, scored>>
    /\ UNCHANGED fitVars

\* Lines 149-160: extents and volume of the candidate's box, and the new
\* best when the volume is smaller.  `scored` logs what was computed.
Score ==
    /\ pc = "for_part"
    /\ part > Len(parts)
    /\ LET dim == Dim(heap[bbox])
           vol == Vol(dim)
       IN  /\ res' = IF Better(vol, res.Vol)
                     THEN [RefObjName |-> refPart, RefObjId |-> refPart,
                           BBox |-> bbox, Dim |-> dim, Vol |-> vol]
                     ELSE res
           /\ scored' = Append(scored, [box |-> heap[bbox], dim |-> dim, vol |-> vol])
    /\ refPart' = refPart + 1
    /\ pc' = "for_ref"
    /\ UNCHANGED <<parts, part, refTransformationMat, heap, bbox, outcome>>
    /\ UNCHANGED fitVars

\* Line 163.
Return ==
    /\ pc = "for_ref"
    /\ refPart > Len(parts)
    /\ pc' = "done"
    /\ outcome' = "returned"
    /\ UNCHANGED <<parts, refPart, part, refTransformationMat, heap, bbox, res, scored>>
    /\ UNCHANGED fitVars

Next ==
    \/ BeginRef
    \/ RaiseInvalidRef
    \/ SkipPart
    \/ FitPart
    \/ RaiseInvalidPart
    \/ RaiseSingular
    \/ Score
    \/ Return

Spec == Init /\ [][Next]_vars

-----------------------------------------------------------------------------
(* The box accumulator on its own: a caller that creates a box and fits    *)
(* points into it, as line 147 does (bbox = fitBBox(bbox, point)).         *)

FitPoints ==
    { <<0, 0, 0>>, <<1, 1, 2>>, <<2, 1, 1>>, <<-1, 3, 0>>, <<1, -2, 2>>, <<0, 3, -1>> }

InitFit ==
    /\ heap = <<initBBox>>
    /\ bbox = 1
    /\ fitted = <<>>
    /\ argRef = None
    /\ argBefore = initBBox
    /\ retRef = None
    /\ parts = <<>>
    /\ pc = "fit"
    /\ refPart = 1
    /\ part = 1
    /\ refTransformationMat = Identity4
    /\ res = InitRes
    /\ scored = <<>>
    /\ outcome = "running"

\* One call bbox = fitBBox(bbox, point).  argRef and argBefore record the
\* array passed and its contents before the call, retRef the array returned.
Fit ==
    /\ pc = "fit"
    /\ Len(fitted) < MaxFit
    /\ \E point \in FitPoints :
         LET r == fitBBox(heap, bbox, point)
         IN  /\ heap' = r.heap
             /\ bbox' = r.ret
             /\ retRef' = r.ret
             /\ fitted' = Append(fitted, point)
    /\ argRef' = bbox
    /\ argBefore' = heap[bbox]
    /\ UNCHANGED searchVars

NextFit == Fit

SpecFit == InitFit /\ [][NextFit]_vars

-----------------------------------------------------------------------------
(* Vocabulary of the properties *)

Returned == pc = "done" /\ outcome = "returned"

\* The call has ended: it returned, or an exception left it.
Ended == pc \in {"done", "raised_114", "raised_129", "raised_130"}

\* The inner loop of the current candidate has visited every part.
AtScore == pc = "for_part" /\ part > Len(parts)

HasPoints(p) == p.HasOuter /\ Vertices(p.Outer) # <<>>

\* A 3D placement whose Axis and RefDirection have a zero cross product.
Degenerate(pl) == ValidPlacement(pl) /\ cross(pl.Axis, pl.RefDirection) = <<0, 0, 0>>

Range(s) == { s[k] : k \in 1..Len(s) }

SetMin(S) == CHOOSE x \in S : \A y \in S : x <= y
SetMax(S) == CHOOSE x \in S : \A y \in S : x >= y

\* The axis-aligned box of a set of points, written without the accumulator.
BoxOfSet(S) ==
    IF S = {} THEN <<<<Inf, Inf, Inf>>, <<NegInf, NegInf, NegInf>>>>
    ELSE <<<<SetMin({q[1] : q \in S}), SetMin({q[2] : q \in S}), SetMin({q[3] : q \in S})>>,
           <<SetMax({q[1] : q \in S}), SetMax({q[2] : q \in S}), SetMax({q[3] : q \in S})>>>>

Drop4(v) == <<v[1], v[2], v[3]>>

\* The vertices of part p expressed in the frame of candidate r.
PointsInFrame(r, p) ==
    LET T == MatMul(inv(createTransformationMat(parts[r].ObjectPlacement)),
                    createTransformationMat(parts[p].ObjectPlacement))
    IN  { Drop4(MatVec(T, <<q[1], q[2], q[3], 1>>)) : q \in Range(Vertices(parts[p].Outer)) }

GeometryParts == { p \in 1..Len(parts) : parts[p].HasOuter }

\* The merge step of the box accumulator: min of mins, max of maxes.
merge(a, b) ==
    <<<<min(a[1][1], b[1][1]), min(a[1][2], b[1][2]), min(a[1][3], b[1][3])>>,
      <<max(a[2][1], b[2][1]), max(a[2][2], b[2][2]), max(a[2][3], b[2][3])>>>>

\* The box a caller gets by fitting the points of s, in order, into a box
\* returned by initBBox.
RECURSIVE FoldFit(_, _, _)
FoldFit(h, a, s) ==
    IF s = <<>> THEN h[a]
    ELSE LET r == fitBBox(h, a, Head(s)) IN FoldFit(r.heap, r.ret, Tail(s))

FitOf(s) == FoldFit(<<initBBox>>, 1, s)

Permutations(n) == { f \in [1..n -> 1..n] : \A i, j \in 1..n : f[i] = f[j] => i = j }

-----------------------------------------------------------------------------
(* Claims *)

\* C1: when at least one part has geometry, the volume of the returned result
\* is the volume computed for the candidate it names and is less than or equal
\* to the volume computed for every candidate of the list.
C1_MinimumVolume ==
    (Returned /\ GeometryParts # {}) =>
        /\ Len(scored) = Len(parts)
        /\ res.RefObjId \in 1..Len(parts)
        /\ res.Vol = scored[res.RefObjId].vol
        /\ \A k \in 1..Len(scored) : res.Vol <= scored[k].vol

C1_Witness ==
    /\ Returned
    /\ Len(scored) = 2
    /\ res.RefObjId = 2
    /\ scored[2].vol < scored[1].vol
    /\ scored[2].vol > 0

\* C2: when the assembly has parts and none of them contributes a point,
\* findAssemblyBBox fails (with NoGeometryError) and returns no result, so no
\* box built from the identity infinities is returned.
C2_NoGeometryError ==
    (Ended /\ Len(parts) >= 1 /\ \A p \in 1..Len(parts) : ~HasPoints(parts[p])) =>
        outcome # "returned"

\* C3: among candidates of equal minimum volume the first in list order is the
\* recorded reference, at every point of the search: every earlier candidate
\* scored so far has a strictly larger volume, and no candidate scored so far
\* has a smaller one.
C3_FirstWins ==
    (res.RefObjId # None) =>
        \A k \in 1..Len(scored) :
            /\ k < res.RefObjId => scored[k].vol > res.Vol
            /\ scored[k].vol >= res.Vol

C3_Witness ==
    /\ Returned
    /\ Len(scored) = 2
    /\ scored[1].vol = scored[2].vol
    /\ scored[1].vol > 0
    /\ parts[1].ObjectPlacement # parts[2].ObjectPlacement
    /\ res.RefObjId = 1

\* C4: every result returned by findAssemblyBBox has volume >= 0.
C4_VolumeNonNegative ==
    Returned => res.Vol >= 0

\* C5: the box accumulator is order-independent: fitting the points fitted so
\* far in any permutation gives the box the caller holds, and so does merging
\* the box fitted from any prefix with the box fitted from the rest.
C5_OrderIndependent ==
    LET n == Len(fitted) IN
    /\ \A f \in Permutations(n) : FitOf([i \in 1..n |-> fitted[f[i]]]) = heap[bbox]
    /\ \A k \in 0..n :
         merge(FitOf(SubSeq(fitted, 1, k)), FitOf(SubSeq(fitted, k + 1, n))) = heap[bbox]

C5_Witness ==
    /\ Len(fitted) = 3
    /\ fitted[1] # fitted[2]
    /\ fitted[2] # fitted[3]
    /\ fitted[1] # fitted[3]
    /\ FitOf(<<fitted[1]>>) # FitOf(<<fitted[3]>>)

\* C6 as stated: fitBBox returns a new box and the box passed in still holds
\* the values it had before the call.
C6_ArgumentUnchanged ==
    (argRef # None) => (retRef # argRef /\ heap[argRef] = argBefore)

\* C6 amended: fitBBox returns the box it was passed, and after the call that
\* box holds the componentwise min of its old min and the point and the
\* componentwise max of its old max and the point.
C6_UpdatesInPlace ==
    (argRef # None) =>
        LET point == fitted[Len(fitted)] IN
        /\ retRef = argRef
        /\ \A i \in 1..3 :
             /\ heap[argRef][1][i] = (IF point[i] < argBefore[1][i] THEN point[i] ELSE argBefore[1][i])
             /\ heap[argRef][2][i] = (IF point[i] > argBefore[2][i] THEN point[i] ELSE argBefore[2][i])

C6_Witness ==
    /\ argRef # None
    /\ Len(fitted) >= 2
    /\ heap[argRef] # argBefore

\* C7: a placement whose Axis and RefDirection have a zero cross product makes
\* createTransformationMat fail (with DegeneratePlacementError), and
\* findAssemblyBBox, which builds the transform of every part, ends with that
\* failure: it returns no result for an assembly that has such a part.
C7_DegenerateRejected ==
    (Ended /\ \E p \in 1..Len(parts) : Degenerate(parts[p].ObjectPlacement)) =>
        outcome # "returned"

\* C8: the box of initBBox is (+inf, +inf, +inf), (-inf, -inf, -inf); after at
\* least one fitBBox, min <= max on every axis and every fitted point lies
\* between min and max on every axis.
C8_BoxInvariant ==
    /\ fitted = <<>> => heap[bbox] = <<<<Inf, Inf, Inf>>, <<-Inf, -Inf, -Inf>>>>
    /\ fitted # <<>> =>
         \A i \in 1..3 :
            /\ heap[bbox][1][i] <= heap[bbox][2][i]
            /\ \A k \in 1..Len(fitted) :
                 heap[bbox][1][i] <= fitted[k][i] /\ fitted[k][i] <= heap[bbox][2][i]

C8_Witness ==
    /\ Len(fitted) >= 2
    /\ \A i \in 1..3 : heap[bbox][1][i] < heap[bbox][2][i]

\* C9: a part without geometry is passed over without an error and adds no
\* point: when the inner loop of a candidate ends, its box is the box of
\* exactly the vertices of the parts that have geometry, expressed in the
\* candidate's frame; when the candidate is the only part with geometry, that
\* is the box of its own local points; and a search that returns has scored
\* every part as a candidate.
C9_SkipNoGeometry ==
    /\ AtScore =>
         /\ GeometryParts # {} => ~Singular(refTransformationMat)
         /\ heap[bbox] = BoxOfSet(UNION { PointsInFrame(refPart, p) : p \in GeometryParts })
         /\ GeometryParts = {refPart} =>
              heap[bbox] = BoxOfSet(Range(Vertices(parts[refPart].Outer)))
    /\ pc \in {"raised_129", "raised_130"} => parts[part].HasOuter
    /\ Returned => Len(scored) = Len(parts)

C9_Witness ==
    /\ AtScore
    /\ Len(parts) = 2
    /\ refPart = 2
    /\ GeometryParts = {2}
    /\ parts[2].ObjectPlacement.Location # <<0, 0, 0>>
    /\ Len(Vertices(parts[2].Outer)) >= 2

\* The recorded result is consistent: its BBox is the box scored for the
\* candidate named by RefObjId, Dim is max - min of that box and Vol the
\* product of Dim.
Consistent ==
    (res.BBox # None) =>
        /\ res.RefObjId \in 1..Len(scored)
        /\ heap[res.BBox] = scored[res.RefObjId].box
        /\ \A i \in 1..3 : res.Dim[i] = ExtSub(heap[res.BBox][2][i], heap[res.BBox][1][i])
        /\ res.Vol = ExtMul(ExtMul(res.Dim[1], res.Dim[2]), res.Dim[3])

\* C10: every candidate starts from a fresh identity box; the recorded result
\* stays consistent; and a step either leaves the recorded BBox, Dim and Vol
\* (and the contents of the recorded box) as they were or replaces them
\* together by those of a strictly smaller volume.
C10_ResultConsistent ==
    [][ /\ (pc = "for_ref" /\ pc' = "for_part") =>
              (heap'[bbox'] = <<<<Inf, Inf, Inf>>, <<-Inf, -Inf, -Inf>>>> /\ bbox' # res.BBox)
        /\ Consistent'
        /\ (res.BBox # None) =>
              \/ res' = res /\ heap'[res.BBox] = heap[res.BBox]
              \/ /\ res'.Vol < res.Vol
                 /\ res'.BBox # res.BBox
                 /\ res'.RefObjId # res.RefObjId
                 /\ heap'[res.BBox] = heap[res.BBox]
      ]_vars

C10_Witness ==
    /\ Returned
    /\ Len(parts) = 2
    /\ res.RefObjId = 1
    /\ scored[2].box # scored[1].box
    /\ scored[1].vol > 0

====
